---- MODULE Spec2Model ----
(***************************************************************************)
(* Model of uiotest (uio-test-system.sdk/tester/src/main.c): the command   *)
(* line front end (main), the optional daemonizing fork, the SIGINT        *)
(* handler (uio_terminate) and the UIO interrupt loop (uio_run) over the   *)
(* AXI GPIO register window.                                               *)
(*                                                                         *)
(* Granularity: one action per system call / register access, together     *)
(* with the branch the code takes on its result.  A SIGINT may be          *)
(* delivered between any two actions of a process once the handler is      *)
(* installed.  Every call the program makes is appended to the calling     *)
(* process's log, so that ordering and counting properties are state       *)
(* predicates over the log.                                                *)
(***************************************************************************)
EXTENDS Integers, Sequences, FiniteSets, TLC

(* ------------------------------ bounds --------------------------------- *)

\* longest argument list (number of option tokens after argv[0])
MaxArgs == 2

\* number of unmask writes a process may issue before the model stops it
MaxIter == 2

\* largest interrupt count the kernel delivers through read()
MaxPending == 1

\* number of interrupts the peripheral latches during one run
MaxRaises == 2

\* width of size_t in the model; the real width (32) exceeds TLC's integers,
\* the comparison nb < sizeof(en) behaves alike for every width >= 3
SizeTBits == 8

(* ------------------------- program constants --------------------------- *)

\* sizeof(unsigned long) == sizeof(en) == sizeof(ier) on the 32-bit target
WordBytes == 4

\* the descriptor open() hands out when it succeeds
GoodFd == 3

\* the index of the only bit of AXI_GPIO_GIER_ENABLE, (1 << 31)
GIER_ENABLE_BIT == 31

AXI_GPIO_GIER_ENABLE == {GIER_ENABLE_BIT}

\* register offsets, named
AXI_GPIO_DATA_OFFSET == "DATA"
AXI_GPIO_TRI_OFFSET == "TRI"
AXI_GPIO_GIER_OFFSET == "GIER"
AXI_GPIO_IPISR_OFFSET == "IPISR"
AXI_GPIO_IPIER_OFFSET == "IPIER"

RegNames ==
  {AXI_GPIO_DATA_OFFSET, AXI_GPIO_TRI_OFFSET, AXI_GPIO_GIER_OFFSET,
   AXI_GPIO_IPISR_OFFSET, AXI_GPIO_IPIER_OFFSET}

\* channel bits of the registers the model keeps (bit 0 is channel 0)
ChanBits == {0, 1}

\* what the peripheral's registers may hold when the program starts: the
\* direction register with or without channel 0 as input, the interrupt
\* enable register with or without another channel enabled, the status
\* register clear or with both channels pending; an earlier run may have
\* left the global enable set
TriAtStart == {{1}, {0, 1}}
IerAtStart == {{}, {1}}
IsrAtStart == {{}, {0, 1}}

EXIT_SUCCESS == 0
EXIT_FAILURE == 1

\* the two processes an invocation can give rise to
Procs == {"parent", "child"}

\* option tokens: "d" is "-d <path>", "D" is "-D", "x" is an option getopt
\* does not know, "dn" is a trailing "-d" without its argument
Tokens == {"d", "D", "x", "dn"}

RECURSIVE SeqsUpTo(_, _)
SeqsUpTo(S, n) ==
  IF n = 0 THEN {<<>>}
  ELSE LET shorter == SeqsUpTo(S, n - 1)
       IN shorter \cup {Append(s, t) : s \in {r \in shorter : Len(r) = n - 1}, t \in S}

\* "dn" can only be the last token: anywhere else getopt takes the next word
\* as the argument of -d
ArgLists ==
  {a \in SeqsUpTo(Tokens, MaxArgs) : \A i \in 1..Len(a) : a[i] = "dn" => i = Len(a)}

\* argv:  the option tokens getopt has not consumed yet (argv from optind on)
\* given: the option tokens getopt has consumed
\* proc:  the variables, position and call log of each process
\* regs:  the contents of the peripheral's register window
\* raises: the number of interrupts the peripheral has latched so far
VARIABLES argv, given, proc, regs, raises

vars == <<argv, given, proc, regs, raises>>

(* ----------------------------- log events ------------------------------ *)

Ev(op, reg, bits, arg, res) ==
  [op |-> op, reg |-> reg, bits |-> bits, arg |-> arg, res |-> res]

Call(op, arg, res) == Ev(op, "-", {}, arg, res)

RegRd(reg, bits) == Ev("rd", reg, bits, 0, 0)

RegWr(reg, bits) == Ev("wr", reg, bits, 0, 0)

Msg(op) == Ev(op, "-", {}, 0, 0)

(* --------------------------- pure helpers ------------------------------ *)

\* conversion of a ssize_t result to size_t (nb is declared size_t)
ToSizeT(r) == r % (2 ^ SizeTBits)

\* (variant of IsShort that only catches a write of nothing)
IsShortOnlyZero(nb) == nb = 0

\* the test of line 200: nb < sizeof(en)
IsShort(nb) == nb < WordBytes

\* volatile load from the mapped window
read_reg(base, offset) == base[offset]

\* volatile store to the mapped window; the interrupt status register is
\* write-1-to-clear, every other register keeps the value stored
write_reg(base, offset, val) ==
  [base EXCEPT ![offset] =
     IF offset = AXI_GPIO_IPISR_OFFSET THEN base[offset] \ val ELSE val]

(* ------------------------------- state --------------------------------- *)

InitProc(p) ==
  [pc |-> IF p = "parent" THEN "signal" ELSE "none",
   status |-> EXIT_SUCCESS, via |-> "none", at |-> "none",
   handler |-> FALSE,
   name |-> "NULL",
   daemonizeInit |-> FALSE, daemonize |-> 0,
   fd |-> -1, mapped |-> FALSE,
   nb |-> 0,
   npendingInit |-> FALSE, npending |-> 0, tested |-> "none",
   tri |-> {}, ier |-> {}, isr |-> {}, data |-> {}, raced |-> {},
   ret |-> EXIT_SUCCESS,
   iter |-> 0,
   log |-> <<>>]

Init ==
  /\ argv \in ArgLists
  /\ given = {}
  /\ raises = 0
  /\ proc = [p \in Procs |-> InitProc(p)]
  /\ \E t \in TriAtStart, e \in IerAtStart, s \in IsrAtStart :
       regs = [r \in RegNames |->
                 CASE r = AXI_GPIO_TRI_OFFSET -> t
                   [] r = AXI_GPIO_IPIER_OFFSET -> e
                   [] r = AXI_GPIO_IPISR_OFFSET -> s
                   [] r = AXI_GPIO_GIER_OFFSET -> AXI_GPIO_GIER_ENABLE
                   [] OTHER -> {}]

Running(p) == proc[p].pc \notin {"none", "exited"}

Set(p, r) == proc' = [proc EXCEPT ![p] = r]

\* exit(status) / return from main: the process is gone
\* (at remembers the statement the process was at, via the way it ended)
Exited(r, st, how) ==
  [r EXCEPT !.pc = "exited", !.status = st, !.via = how, !.at = r.pc]

Logged(r, evs) == [r EXCEPT !.log = r.log \o evs]

(* ------------------------- uio_terminate ------------------------------- *)

\* (variant of uio_terminate that reports the interruption as a failure)
uio_terminateFailing(r, signo) ==
  IF signo = "SIGINT" THEN Exited(r, EXIT_FAILURE, "signal")
  ELSE IF signo = "SIGKILL" THEN Exited(r, EXIT_FAILURE, "signal")
  ELSE r

\* the handler body: exit(EXIT_SUCCESS) for SIGINT (and for SIGKILL, which
\* is never delivered to a handler); any other signal returns to the program
uio_terminate(r, signo) ==
  IF signo = "SIGINT" THEN Exited(r, EXIT_SUCCESS, "signal")
  ELSE IF signo = "SIGKILL" THEN Exited(r, EXIT_SUCCESS, "signal")
  ELSE r

\* SIGINT is delivered to a live process whose handler is installed
Sigint(p) ==
  /\ Running(p)
  /\ proc[p].handler
  /\ Set(p, uio_terminate(proc[p], "SIGINT"))
  /\ UNCHANGED <<argv, given, regs>>

(* ------------------------------- main ---------------------------------- *)

\* usage(): one line on standard output
usage(r) == Logged(r, <<Msg("print_usage")>>)

\* line 242: signal(SIGINT, uio_terminate), SIG_ERR ends the process
InstallHandler(p) ==
  /\ proc[p].pc = "signal"
  /\ \/ Set(p, [proc[p] EXCEPT !.handler = TRUE, !.pc = "getopt"])
     \/ Set(p, Exited(proc[p], EXIT_FAILURE, "sig_err"))
  /\ UNCHANGED <<argv, given, regs>>

\* (variant of UnknownOption without the return: parsing goes on)
UnknownOptionGoesOn(r) == usage(Logged(r, <<Msg("print_error")>>))

\* lines 255-262, case '?': print_error, usage(), return EXIT_FAILURE
UnknownOption(r) ==
  Exited(usage(Logged(r, <<Msg("print_error")>>)), EXIT_FAILURE, "main_return")

\* lines 246-267: one call of getopt and the switch on its result; getopt
\* steps optind past the option it returns
Getopt(p) ==
  /\ proc[p].pc = "getopt"
  /\ LET r == proc[p]
     IN IF argv = <<>>
        THEN /\ Set(p, [r EXCEPT !.pc = "daemon_check"])
             /\ UNCHANGED <<argv, given>>
        ELSE /\ argv' = Tail(argv)
             /\ given' = given \cup {Head(argv)}
             /\ CASE Head(argv) = "d" -> Set(p, [r EXCEPT !.name = "optarg"])
                  [] Head(argv) = "D" ->
                       Set(p, [r EXCEPT !.daemonizeInit = TRUE, !.daemonize = 1])
                  [] OTHER -> Set(p, UnknownOption(r))
  /\ UNCHANGED regs

\* the values the test of line 270 can see: daemonize is only ever assigned
\* by -D, without it the automatic variable is read uninitialised
DaemonizeValues(r) == IF r.daemonizeInit THEN {r.daemonize} ELSE {0, 1}

\* (variant of AfterFork in which the parent falls through to the device loop)
AfterForkFallThrough(r) == [r EXCEPT !.pc = "name_check"]

\* what the parent does when fork() returned the child's pid (lines 276-280)
AfterFork(r) == [r EXCEPT !.pc = "report"]

\* lines 270-281: the test of daemonize and the fork
DaemonCheck(p) ==
  /\ proc[p].pc = "daemon_check"
  /\ LET r == proc[p]
     IN \E dz \in DaemonizeValues(r) :
          IF dz = 0
          THEN Set(p, [r EXCEPT !.pc = "name_check"])
          ELSE \/ \* fork() failed: print_error, err(EXIT_FAILURE, NULL)
                  Set(p, Exited(Logged(r, <<Call("fork", 0, -1), Msg("print_error")>>),
                                EXIT_FAILURE, "err"))
               \/ \* fork() succeeded: the child is a copy that sees pid == 0
                  /\ proc["child"].pc = "none"
                  /\ p # "child"
                  /\ proc' = [proc EXCEPT
                        ![p] = AfterFork(Logged(r, <<Call("fork", 0, 1)>>)),
                        !["child"] = [r EXCEPT !.pc = "name_check", !.log = <<>>]]
  /\ UNCHANGED <<argv, given, regs>>

\* lines 278-279: the parent reports the pid and returns EXIT_SUCCESS
Report(p) ==
  /\ proc[p].pc = "report"
  /\ Set(p, Exited(Logged(proc[p], <<Msg("print_pid")>>), EXIT_SUCCESS, "main_return"))
  /\ UNCHANGED <<argv, given, regs>>

\* lines 283-286: no device name, usage and failure
NameCheck(p) ==
  /\ proc[p].pc = "name_check"
  /\ IF proc[p].name = "NULL"
     THEN Set(p, Exited(usage(proc[p]), EXIT_FAILURE, "main_return"))
     ELSE Set(p, [proc[p] EXCEPT !.pc = "open"])
  /\ UNCHANGED <<argv, given, regs>>

\* line 290: exit(status) with what uio_run returned
MainExit(p) ==
  /\ proc[p].pc = "run_returned"
  /\ Set(p, Exited(proc[p], proc[p].ret, "exit_status"))
  /\ UNCHANGED <<argv, given, regs>>

(* ------------------------------ uio_run -------------------------------- *)

\* results open() can give: a descriptor, or -1
OpenResults == {GoodFd, -1}

\* lines 157-160: open; a negative descriptor is reported and nothing else
uio_open(p) ==
  /\ proc[p].pc = "open"
  /\ \E f \in OpenResults :
       LET r == [proc[p] EXCEPT !.fd = f, !.pc = "mmap"]
       IN Set(p, Logged(r, IF f < 0
                           THEN <<Call("open", 0, f), Msg("print_error")>>
                           ELSE <<Call("open", 0, f)>>))
  /\ UNCHANGED <<argv, given, regs>>

\* mmap of a file mapping succeeds or fails on an open descriptor and fails
\* (EBADF) on a descriptor that is not open
MmapResults(f) == IF f < 0 THEN {FALSE} ELSE {TRUE, FALSE}

\* lines 163-174: mmap and the MAP_FAILED test
uio_mmap(p) ==
  /\ proc[p].pc = "mmap"
  /\ \E ok \in MmapResults(proc[p].fd) :
       LET r == proc[p]
       IN IF ok
          THEN Set(p, Logged([r EXCEPT !.mapped = TRUE, !.pc = "gier_off"],
                             <<Call("mmap", r.fd, 1)>>))
          ELSE Set(p, Logged([r EXCEPT !.pc = "mapfail_close"],
                             <<Call("mmap", r.fd, 0), Msg("print_error")>>))
  /\ UNCHANGED <<argv, given, regs>>

\* (variant of MapFailClose that returns without closing the descriptor)
MapFailCloseLeak(p) ==
  /\ proc[p].pc = "mapfail_close"
  /\ Set(p, [proc[p] EXCEPT !.pc = "run_returned", !.ret = EXIT_FAILURE])
  /\ UNCHANGED <<argv, given, regs>>

\* lines 172-173: close(fd); return EXIT_FAILURE
MapFailClose(p) ==
  /\ proc[p].pc = "mapfail_close"
  /\ Set(p, Logged([proc[p] EXCEPT !.pc = "run_returned", !.ret = EXIT_FAILURE],
                   <<Call("close", proc[p].fd, 0)>>))
  /\ UNCHANGED <<argv, given, regs>>

\* a register store by process p, followed by the move to the next statement
Store(p, offset, val, r) ==
  /\ regs' = write_reg(regs, offset, val)
  /\ Set(p, Logged(r, <<RegWr(offset, val)>>))
  /\ UNCHANGED <<argv, given>>

\* line 179: write_reg(iomem, AXI_GPIO_GIER_OFFSET, 0)
GierOff(p) ==
  /\ proc[p].pc = "gier_off"
  /\ Store(p, AXI_GPIO_GIER_OFFSET, {}, [proc[p] EXCEPT !.pc = "tri_read"])

\* line 182: tri = read_reg(iomem, AXI_GPIO_TRI_OFFSET)
TriRead(p) ==
  /\ proc[p].pc = "tri_read"
  /\ LET v == read_reg(regs, AXI_GPIO_TRI_OFFSET)
     IN Set(p, Logged([proc[p] EXCEPT !.tri = v, !.pc = "tri_write"],
                      <<RegRd(AXI_GPIO_TRI_OFFSET, v)>>))
  /\ UNCHANGED <<argv, given, regs>>

\* (variant of TriWrite that assigns the bit instead of or-ing it in)
TriWriteAssigns(p) ==
  /\ proc[p].pc = "tri_write"
  /\ Store(p, AXI_GPIO_TRI_OFFSET, {0}, [proc[p] EXCEPT !.tri = {0}, !.pc = "ier_read"])

\* lines 183-184: tri |= (1 << 0); write_reg(iomem, AXI_GPIO_TRI_OFFSET, tri)
TriWrite(p) ==
  /\ proc[p].pc = "tri_write"
  /\ LET v == proc[p].tri \cup {0}
     IN Store(p, AXI_GPIO_TRI_OFFSET, v, [proc[p] EXCEPT !.tri = v, !.pc = "ier_read"])

\* line 186: ier = read_reg(iomem, AXI_GPIO_IPIER_OFFSET)
IerRead(p) ==
  /\ proc[p].pc = "ier_read"
  /\ LET v == read_reg(regs, AXI_GPIO_IPIER_OFFSET)
     IN Set(p, Logged([proc[p] EXCEPT !.ier = v, !.pc = "ier_write"],
                      <<RegRd(AXI_GPIO_IPIER_OFFSET, v)>>))
  /\ UNCHANGED <<argv, given, regs>>

\* lines 187-188: ier |= (1 << 0); write_reg(iomem, AXI_GPIO_IPIER_OFFSET, ier)
IerWrite(p) ==
  /\ proc[p].pc = "ier_write"
  /\ LET v == proc[p].ier \cup {0}
     IN Store(p, AXI_GPIO_IPIER_OFFSET, v, [proc[p] EXCEPT !.ier = v, !.pc = "gier_on"])

\* lines 190-192: write_reg(iomem, AXI_GPIO_GIER_OFFSET, AXI_GPIO_GIER_ENABLE)
\* and the 50 ms sleep, which changes no state
GierOn(p) ==
  /\ proc[p].pc = "gier_on"
  /\ Store(p, AXI_GPIO_GIER_OFFSET, AXI_GPIO_GIER_ENABLE,
           [proc[p] EXCEPT !.pc = "unmask"])

\* results write() can give for a request of WordBytes bytes
WriteResults == {-1, 0, WordBytes - 1, WordBytes}

\* lines 198-205: en = 1; nb = write(fd, &en, sizeof(ier)); test of nb
Unmask(p) ==
  /\ proc[p].pc = "unmask"
  /\ proc[p].iter < MaxIter
  /\ \E w \in WriteResults :
       LET n == ToSizeT(w)
           r == [proc[p] EXCEPT !.nb = n, !.iter = @ + 1]
       IN IF IsShort(n)
          THEN Set(p, Logged([r EXCEPT !.pc = "short_munmap"],
                             <<Call("write", 1, w), Msg("print_error")>>))
          ELSE Set(p, Logged([r EXCEPT !.pc = "wait"], <<Call("write", 1, w)>>))
  /\ UNCHANGED <<argv, given, regs>>

\* line 202: munmap(iomem, AXI_GPIO_ADDR_SIZE)
ShortMunmap(p) ==
  /\ proc[p].pc = "short_munmap"
  /\ Set(p, Logged([proc[p] EXCEPT !.mapped = FALSE, !.pc = "short_close"],
                   <<Call("munmap", 0, 0)>>))
  /\ UNCHANGED <<argv, given, regs>>

\* (variant of ShortClose that returns EXIT_SUCCESS after the teardown)
ShortCloseSuccess(p) ==
  /\ proc[p].pc = "short_close"
  /\ Set(p, Logged([proc[p] EXCEPT !.pc = "run_returned", !.ret = EXIT_SUCCESS],
                   <<Call("close", proc[p].fd, 0)>>))
  /\ UNCHANGED <<argv, given, regs>>

\* lines 203-204: close(fd); return EXIT_FAILURE
ShortClose(p) ==
  /\ proc[p].pc = "short_close"
  /\ Set(p, Logged([proc[p] EXCEPT !.pc = "run_returned", !.ret = EXIT_FAILURE],
                   <<Call("close", proc[p].fd, 0)>>))
  /\ UNCHANGED <<argv, given, regs>>

\* results read() can give for a request of WordBytes bytes
ReadResults == {-1, 0, WordBytes}

\* the values npending can hold after a read that returned w: a read that
\* transferred the word stores the kernel's count, a read that transferred
\* nothing leaves the variable as it was, which before the first full read
\* is an uninitialised automatic variable
PendingValues(r, w) ==
  IF w > 0 THEN 0 .. MaxPending
  ELSE IF r.npendingInit THEN {r.npending}
  ELSE 0 .. MaxPending

\* where the value of npending comes from when it is tested after a read
\* that returned w: from that read, from an earlier read, or from nowhere
Provenance(r, w) ==
  IF w > 0 THEN "delivered"
  ELSE IF r.npendingInit THEN "stale"
  ELSE "uninit"

\* (variant of EntersHandling that handles after every wake-up)
EntersHandlingAlways(v) == TRUE

\* line 210: if (npending)
EntersHandling(v) == v # 0

\* lines 208-212: nb = read(fd, &npending, sizeof(unsigned long)); the result
\* nb is not looked at; if (npending) enters the handling branch
WaitRead(p) ==
  /\ proc[p].pc = "wait"
  /\ \E w \in ReadResults :
       \E v \in PendingValues(proc[p], w) :
         LET r == [proc[p] EXCEPT !.nb = ToSizeT(w),
                                  !.npendingInit = @ \/ (w > 0),
                                  !.npending = v,
                                  !.tested = Provenance(proc[p], w)]
         IN IF EntersHandling(v)
            THEN Set(p, Logged([r EXCEPT !.pc = "isr_read"],
                               <<Call("read", v, w), Msg("print_irq")>>))
            ELSE Set(p, Logged([r EXCEPT !.pc = "unmask"], <<Call("read", v, w)>>))
  /\ UNCHANGED <<argv, given, regs>>

\* lines 215-217: isr = read_reg(iomem, AXI_GPIO_IPISR_OFFSET); if (isr)
IsrRead(p) ==
  /\ proc[p].pc = "isr_read"
  /\ LET v == read_reg(regs, AXI_GPIO_IPISR_OFFSET)
     IN Set(p, Logged([proc[p] EXCEPT !.isr = v,
                                      !.pc = IF v # {} THEN "isr_write" ELSE "data_read"],
                      <<RegRd(AXI_GPIO_IPISR_OFFSET, v)>>))
  /\ UNCHANGED <<argv, given, regs>>

\* (variant of IsrWrite that stores to the interrupt enable register)
IsrWriteToIpier(p) ==
  /\ proc[p].pc = "isr_write"
  /\ Store(p, AXI_GPIO_IPIER_OFFSET, proc[p].isr, [proc[p] EXCEPT !.pc = "data_read"])

\* (variant of IsrWrite that acknowledges channel 0 only)
IsrWriteChannel0(p) ==
  /\ proc[p].pc = "isr_write"
  /\ Store(p, AXI_GPIO_IPISR_OFFSET, {0}, [proc[p] EXCEPT !.pc = "data_read"])

\* (variant of IsrWrite that writes back what the register holds now, not
\* what was read at line 215)
IsrWriteRereads(p) ==
  /\ proc[p].pc = "isr_write"
  /\ Store(p, AXI_GPIO_IPISR_OFFSET, read_reg(regs, AXI_GPIO_IPISR_OFFSET),
           [proc[p] EXCEPT !.pc = "data_read"])

\* line 218: write_reg(iomem, AXI_GPIO_IPISR_OFFSET, isr)
\* (raced remembers the status bits that were set at the time of the store
\* without having been in the value read)
IsrWrite(p) ==
  /\ proc[p].pc = "isr_write"
  /\ Store(p, AXI_GPIO_IPISR_OFFSET, proc[p].isr,
           [proc[p] EXCEPT !.pc = "data_read",
                           !.raced = read_reg(regs, AXI_GPIO_IPISR_OFFSET) \ proc[p].isr])

(* ---------------------------- the peripheral --------------------------- *)

\* the peripheral latches an interrupt of channel b in the status register;
\* it does so on its own, whatever the program is doing
HwRaise(b) ==
  /\ raises < MaxRaises
  /\ b \notin regs[AXI_GPIO_IPISR_OFFSET]
  /\ regs' = [regs EXCEPT ![AXI_GPIO_IPISR_OFFSET] = @ \cup {b}]
  /\ raises' = raises + 1
  /\ UNCHANGED <<argv, given, proc>>

\* lines 220-223: data = read_reg(iomem, AXI_GPIO_DATA_OFFSET), back to the
\* top of the loop
DataRead(p) ==
  /\ proc[p].pc = "data_read"
  /\ LET v == read_reg(regs, AXI_GPIO_DATA_OFFSET)
     IN Set(p, Logged([proc[p] EXCEPT !.data = v, !.pc = "unmask"],
                      <<RegRd(AXI_GPIO_DATA_OFFSET, v)>>))
  /\ UNCHANGED <<argv, given, regs>>

(* --------------------------- specification ----------------------------- *)

ProcStep(p) ==
    \/ InstallHandler(p)
    \/ Getopt(p)
    \/ DaemonCheck(p)
    \/ Report(p)
    \/ NameCheck(p)
    \/ MainExit(p)
    \/ uio_open(p)
    \/ uio_mmap(p)
    \/ MapFailClose(p)
    \/ GierOff(p)
    \/ TriRead(p)
    \/ TriWrite(p)
    \/ IerRead(p)
    \/ IerWrite(p)
    \/ GierOn(p)
    \/ Unmask(p)
    \/ ShortMunmap(p)
    \/ ShortClose(p)
    \/ WaitRead(p)
    \/ IsrRead(p)
    \/ IsrWrite(p)
    \/ DataRead(p)
    \/ Sigint(p)

\* the program alone: the status register changes only by the program's
\* own write-back
Next == \E p \in Procs : ProcStep(p) /\ UNCHANGED raises

Spec == Init /\ [][Next]_vars

\* the program run as the daemon (-d <path> -D) beside the peripheral, which
\* latches interrupts at any moment; the status register starts clear
InitHw ==
  /\ Init
  /\ argv = <<"d", "D">>
  /\ regs[AXI_GPIO_TRI_OFFSET] = {1}
  /\ regs[AXI_GPIO_IPIER_OFFSET] = {1}
  /\ regs[AXI_GPIO_IPISR_OFFSET] = {}

NextHw ==
  \/ Next
  \/ \E b \in ChanBits : HwRaise(b)

SpecHw == InitHw /\ [][NextHw]_vars

(* ------------------------ vocabulary of the claims --------------------- *)

LogOf(p) == proc[p].log

\* positions of p's log that hold a call of the given kind
At(p, op) == {i \in DOMAIN LogOf(p) : LogOf(p)[i].op = op}

Count(p, op) == Cardinality(At(p, op))

\* the option is among the arguments of the invocation
HasOpt(t) == t \in given \/ \E i \in DOMAIN argv : argv[i] = t

Ended(p) == proc[p].pc = "exited"

\* the process ended on its own, not in the signal handler
EndedUnsignalled(p) == Ended(p) /\ proc[p].via # "signal"

RegisterOps == {"rd", "wr"}

DeviceFileOps == {"write", "read"}

\* no event of the given kinds after position i of p's log
NoneAfter(p, i, ops) ==
  \A j \in DOMAIN LogOf(p) : j > i => LogOf(p)[j].op \notin ops

\* the system calls (not the messages) p made after position i, in order
RECURSIVE CallsFrom(_, _)
CallsFrom(l, i) ==
  IF i > Len(l) THEN <<>>
  ELSE IF l[i].op \in {"print_usage", "print_error", "print_pid", "print_irq"}
       THEN CallsFrom(l, i + 1)
       ELSE <<l[i].op>> \o CallsFrom(l, i + 1)

IsPrefix(s, t) == Len(s) <= Len(t) /\ \A k \in 1..Len(s) : s[k] = t[k]

(* ------------------------------- C1 ------------------------------------ *)

\* C1 (as stated): when the arguments hold no -d, every process of the
\* invocation that ends on its own (not in the SIGINT handler, not on a
\* failure of signal() or fork()) has printed the usage text and ends with
\* failure status, and no process ever opens or maps a device.
C1_NoDeviceOptionIsUsageFailure ==
  (~HasOpt("d") /\ ~HasOpt("dn")) =>
    \A p \in Procs :
      /\ Count(p, "open") = 0 /\ Count(p, "mmap") = 0
      /\ (Ended(p) /\ proc[p].via \in {"main_return", "exit_status"}) =>
           (Count(p, "print_usage") > 0 /\ proc[p].status = EXIT_FAILURE)

(* ------------------------------- C2 ------------------------------------ *)

\* C2 (as stated): after a wait-read that returned fewer than WordBytes bytes
\* (an error return included) the process issues no further unmask write,
\* wait-read or register access, and when it ends on its own it has
\* unmapped, closed and ends with failure status.
C2_ShortReadTerminatesLoop ==
  \A p \in Procs : \A i \in At(p, "read") :
    LogOf(p)[i].res < WordBytes =>
      /\ NoneAfter(p, i, RegisterOps \cup DeviceFileOps)
      /\ EndedUnsignalled(p) =>
           (CallsFrom(LogOf(p), i + 1) = <<"munmap", "close">>
            /\ proc[p].status = EXIT_FAILURE)

(* ------------------------------- C3 ------------------------------------ *)

\* C3 (as stated): after an open that failed the process calls neither mmap
\* nor close, touches no register and does no I/O on the device file, and
\* when it ends on its own it ends with failure status.
C3_OpenFailureStopsAtOpen ==
  \A p \in Procs : \A i \in At(p, "open") :
    LogOf(p)[i].res < 0 =>
      /\ NoneAfter(p, i, {"mmap", "close", "munmap"} \cup RegisterOps \cup DeviceFileOps)
      /\ EndedUnsignalled(p) => proc[p].status = EXIT_FAILURE

(* ------------------------------- C4 ------------------------------------ *)

\* C4 (as stated): after an unmask write that returned -1 the process never
\* issues the wait-read, and when it ends on its own it has unmapped, closed
\* and ends with failure status.
C4_WriteErrorIsFatal ==
  \A p \in Procs : \A i \in At(p, "write") :
    LogOf(p)[i].res = -1 =>
      /\ NoneAfter(p, i, {"read"})
      /\ EndedUnsignalled(p) =>
           (CallsFrom(LogOf(p), i + 1) = <<"munmap", "close">>
            /\ proc[p].status # EXIT_SUCCESS)

(* ------------------------------- C5 ------------------------------------ *)

\* p opened and mapped the device
Acquired(p) ==
  \E i \in At(p, "mmap") : LogOf(p)[i].res = 1

\* C5 (as stated): a process that ends after it opened and mapped the device
\* has called munmap exactly once and close exactly once, munmap first; no
\* process ever calls munmap or close twice, or close on a descriptor that
\* open did not return.
C5_TeardownExactlyOnce ==
  \A p \in Procs :
    /\ Count(p, "munmap") <= 1 /\ Count(p, "close") <= 1
    /\ \A i \in At(p, "close") : LogOf(p)[i].arg >= 0
    /\ (Ended(p) /\ Acquired(p)) =>
         /\ Count(p, "munmap") = 1 /\ Count(p, "close") = 1
         /\ \A i \in At(p, "munmap") : \A j \in At(p, "close") : i < j

(* ------------------------------- C6 ------------------------------------ *)

\* C6: after an unmask write that returned 0 .. WordBytes-1 the process
\* issues no wait-read, no register access and no second write; the calls
\* that follow are munmap and then close, nothing else; uio_run returns
\* EXIT_FAILURE, and a process that ends on its own (not in the SIGINT
\* handler) has made both calls and ends with failure status.
C6_ShortWriteTeardown ==
  \A p \in Procs : \A i \in At(p, "write") :
    LogOf(p)[i].res \in 0 .. (WordBytes - 1) =>
      /\ NoneAfter(p, i, RegisterOps \cup DeviceFileOps)
      /\ IsPrefix(CallsFrom(LogOf(p), i + 1), <<"munmap", "close">>)
      /\ proc[p].pc = "run_returned" =>
           (CallsFrom(LogOf(p), i + 1) = <<"munmap", "close">>
            /\ proc[p].ret = EXIT_FAILURE)
      /\ EndedUnsignalled(p) =>
           (CallsFrom(LogOf(p), i + 1) = <<"munmap", "close">>
            /\ proc[p].status = EXIT_FAILURE)

\* a process ended through exit(status) after a write of WordBytes-1 bytes
C6_Witness ==
  \E p \in Procs :
    /\ proc[p].via = "exit_status"
    /\ \E i \in At(p, "write") : LogOf(p)[i].res = WordBytes - 1
    /\ Count(p, "munmap") = 1 /\ Count(p, "close") = 1

(* ------------------------------- C7 ------------------------------------ *)

\* open succeeded and the mmap that followed failed
MapFailedAfterOpen(p) ==
  /\ \E i \in At(p, "open") : LogOf(p)[i].res >= 0
  /\ \E i \in At(p, "mmap") : LogOf(p)[i].res = 0

\* C7: when open succeeded and mmap failed, the process never calls munmap,
\* never touches a register and never does I/O on the device file; it closes
\* the descriptor open returned at most once, exactly once by the time
\* uio_run returns EXIT_FAILURE, and a process that ends on its own (not in
\* the SIGINT handler) ends with failure status.
C7_MapFailureClosesOnce ==
  \A p \in Procs :
    MapFailedAfterOpen(p) =>
      /\ Count(p, "munmap") = 0
      /\ \A i \in DOMAIN LogOf(p) :
           LogOf(p)[i].op \notin (RegisterOps \cup DeviceFileOps)
      /\ Count(p, "close") <= 1
      /\ \A i \in At(p, "close") : LogOf(p)[i].arg = proc[p].fd /\ proc[p].fd >= 0
      /\ (proc[p].pc = "run_returned" \/ EndedUnsignalled(p)) =>
           (Count(p, "close") = 1 /\ proc[p].ret = EXIT_FAILURE)
      /\ EndedUnsignalled(p) => proc[p].status = EXIT_FAILURE

\* a process ended through exit(status) after open succeeded and mmap failed
C7_Witness ==
  \E p \in Procs :
    /\ MapFailedAfterOpen(p)
    /\ proc[p].via = "exit_status"
    /\ Count(p, "close") = 1

(* ------------------------------- C8 ------------------------------------ *)

\* C8: a step in which a process handles SIGINT happens only with the handler
\* installed, ends that process with status EXIT_SUCCESS and adds no call to
\* its log; a process that has ended never takes another step.
C8_SigintExitsWithSuccess ==
  [][\A p \in Procs :
       /\ (proc[p].via # "signal" /\ proc'[p].via = "signal") =>
            /\ proc[p].handler
            /\ proc'[p].pc = "exited"
            /\ proc'[p].status = EXIT_SUCCESS
            /\ proc'[p].log = proc[p].log
       /\ Ended(p) => proc'[p] = proc[p]]_vars

\* SIGINT was handled while the process was blocked in the wait-read
C8_Witness ==
  \E p \in Procs :
    /\ proc[p].via = "signal"
    /\ proc[p].at = "wait"
    /\ proc[p].status = EXIT_SUCCESS

(* ------------------------------- C9 ------------------------------------ *)

\* C9 (as stated): fork is called only when -D was given.
C9_ForkOnlyWithDaemonOption ==
  (\E p \in Procs : Count(p, "fork") > 0) => HasOpt("D")

(* ------------------------------- C10 ----------------------------------- *)

ForkedOk(p) == \E i \in At(p, "fork") : LogOf(p)[i].res > 0

ForkFailed(p) == \E i \in At(p, "fork") : LogOf(p)[i].res < 0

DeviceOps == {"open", "mmap", "munmap", "close"} \cup RegisterOps \cup DeviceFileOps

\* C10: with -D and -d given, fork is called at most once in the whole
\* invocation; the process that called fork never opens, maps or otherwise
\* touches the device; after a successful fork it ends with EXIT_SUCCESS and,
\* unless it ended in the SIGINT handler, has reported the pid as its last
\* output; only the child opens the device, and only after the fork; after
\* a failed fork the process ends with failure status and there is no child.
C10_DaemonizeForksOnce ==
  (HasOpt("D") /\ HasOpt("d")) =>
    /\ Count("parent", "fork") + Count("child", "fork") <= 1
    /\ \A p \in Procs :
         Count(p, "fork") > 0 =>
           /\ \A i \in DOMAIN LogOf(p) : LogOf(p)[i].op \notin DeviceOps
           /\ (ForkedOk(p) /\ Ended(p)) => proc[p].status = EXIT_SUCCESS
           /\ (ForkedOk(p) /\ EndedUnsignalled(p)) =>
                LogOf(p)[Len(LogOf(p))].op = "print_pid"
           /\ ForkFailed(p) =>
                (Ended(p) /\ proc[p].status = EXIT_FAILURE
                 /\ proc["child"].pc = "none")
    /\ Cardinality({p \in Procs : Count(p, "open") > 0}) <= 1
    /\ \A p \in Procs : Count(p, "open") > 0 => (p = "child" /\ ForkedOk("parent"))

\* the parent reported the pid and ended, the child has the device mapped
C10_Witness ==
  /\ HasOpt("D") /\ HasOpt("d")
  /\ proc["parent"].via = "main_return"
  /\ proc["parent"].status = EXIT_SUCCESS
  /\ Count("parent", "print_pid") = 1
  /\ Acquired("child")

\* C10, second case: fork failed, the process ended with failure status
C10_WitnessForkFailed ==
  /\ HasOpt("D") /\ HasOpt("d")
  /\ ForkFailed("parent")
  /\ proc["parent"].status = EXIT_FAILURE

(* ------------------------------- C11 ----------------------------------- *)

\* getopt has returned '?': an unknown option, or -d without its argument
BadOptionSeen == "x" \in given \/ "dn" \in given

\* C11: once getopt has reported an unknown option or a -d without argument,
\* whatever valid options came before it, no process of the invocation has
\* forked, opened or mapped, there is no child, and the process has ended
\* in that same step by return from main with failure status, the usage text
\* being the last thing it printed.
C11_BadOptionIsUsageFailure ==
  BadOptionSeen =>
    /\ proc["child"].pc = "none"
    /\ \A p \in Procs :
         \A i \in DOMAIN LogOf(p) : LogOf(p)[i].op \notin ({"fork"} \cup DeviceOps)
    /\ Ended("parent")
    /\ proc["parent"].via = "main_return"
    /\ proc["parent"].at = "getopt"
    /\ proc["parent"].status = EXIT_FAILURE
    /\ LogOf("parent") = <<Msg("print_error"), Msg("print_usage")>>

\* the bad option came after a valid -d and the process ended with usage
C11_Witness ==
  /\ "x" \in given
  /\ "d" \in given
  /\ proc["parent"].name = "optarg"
  /\ Ended("parent")
  /\ Count("parent", "print_usage") = 1
  /\ proc["parent"].status = EXIT_FAILURE

(* ------------------------------- C12 ----------------------------------- *)

\* the register accesses and device-file operations of p, in order
RegDev(p) ==
  SelectSeq(LogOf(p), LAMBDA e : e.op \in RegisterOps \cup DeviceFileOps)

IsRegOp(e, op, reg) == e.op = op /\ e.reg = reg

\* C12: the register accesses of a process start with, in this order: write
\* GIER = 0; read TRI; write TRI = value read plus bit 0; read IPIER; write
\* IPIER = value read plus bit 0; write GIER = enable bit.  All of them
\* follow the successful mmap; after the sixth there is no access to TRI or
\* IPIER at all, and no device-file operation comes before the sixth.
C12_InitialisationOrder ==
  \A p \in Procs :
    LET s == RegDev(p)
        n == Len(s)
    IN /\ n >= 1 => (Acquired(p) /\ IsRegOp(s[1], "wr", AXI_GPIO_GIER_OFFSET)
                     /\ s[1].bits = {})
       /\ n >= 2 => IsRegOp(s[2], "rd", AXI_GPIO_TRI_OFFSET)
       /\ n >= 3 => (IsRegOp(s[3], "wr", AXI_GPIO_TRI_OFFSET)
                     /\ s[3].bits = s[2].bits \cup {0})
       /\ n >= 4 => IsRegOp(s[4], "rd", AXI_GPIO_IPIER_OFFSET)
       /\ n >= 5 => (IsRegOp(s[5], "wr", AXI_GPIO_IPIER_OFFSET)
                     /\ s[5].bits = s[4].bits \cup {0})
       /\ n >= 6 => (IsRegOp(s[6], "wr", AXI_GPIO_GIER_OFFSET)
                     /\ s[6].bits = AXI_GPIO_GIER_ENABLE)
       /\ n >= 7 => s[7].op = "write"
       /\ \A k \in 7..n :
            s[k].reg \notin {AXI_GPIO_TRI_OFFSET, AXI_GPIO_IPIER_OFFSET}
       /\ \A i \in DOMAIN LogOf(p) : \A j \in At(p, "mmap") :
            LogOf(p)[i].op \in RegisterOps \cup DeviceFileOps => j < i

\* initialisation ran on a direction register that had bit 1 set and bit 0
\* clear, and the first unmask write has been issued
C12_Witness ==
  \E p \in Procs :
    /\ Len(RegDev(p)) >= 7
    /\ RegDev(p)[2].bits = {1}
    /\ RegDev(p)[3].bits = {0, 1}
    /\ RegDev(p)[7].op = "write"

(* ------------------------------- C13 ----------------------------------- *)

\* the operations of p on the device file, in order
DevFile(p) == SelectSeq(LogOf(p), LAMBDA e : e.op \in DeviceFileOps)

\* C13 (as stated): the device-file operations of a process alternate,
\* starting with an unmask write: every odd one is a write of the value 1,
\* every even one is a wait-read, and the write right before a wait-read
\* was successful (it transferred the whole word).
C13_UnmaskPrecedesWait ==
  \A p \in Procs :
    LET s == DevFile(p)
    IN \A k \in 1..Len(s) :
         IF k % 2 = 1
         THEN s[k].op = "write" /\ s[k].arg = 1
         ELSE s[k].op = "read" /\ s[k - 1].res = WordBytes

(* ------------------------------- C14 ----------------------------------- *)

\* C14: after a read of IPISR that returned a non-zero value v the next
\* register access is a write of exactly v to IPISR, the one after it a read
\* of the data register, and the next operation is the unmask write; after
\* a read of IPISR that returned 0 the next register access is the read of
\* the data register, then the unmask write, with no write to IPISR between.
C14_AcknowledgeWhatWasRead ==
  \A p \in Procs :
    LET s == RegDev(p)
        n == Len(s)
    IN \A k \in 1..n :
         IsRegOp(s[k], "rd", AXI_GPIO_IPISR_OFFSET) =>
           IF s[k].bits # {}
           THEN /\ k + 1 <= n => (IsRegOp(s[k + 1], "wr", AXI_GPIO_IPISR_OFFSET)
                                  /\ s[k + 1].bits = s[k].bits)
                /\ k + 2 <= n => IsRegOp(s[k + 2], "rd", AXI_GPIO_DATA_OFFSET)
                /\ k + 3 <= n => s[k + 3].op = "write"
           ELSE /\ k + 1 <= n => IsRegOp(s[k + 1], "rd", AXI_GPIO_DATA_OFFSET)
                /\ k + 2 <= n => s[k + 2].op = "write"

\* a status of two pending channels was read, written back, the data
\* register was read and the loop unmasked again
C14_Witness ==
  \E p \in Procs :
    \E k \in 1..Len(RegDev(p)) :
      /\ IsRegOp(RegDev(p)[k], "rd", AXI_GPIO_IPISR_OFFSET)
      /\ RegDev(p)[k].bits = {0, 1}
      /\ k + 3 <= Len(RegDev(p))
      /\ RegDev(p)[k + 1].bits = {0, 1}
      /\ RegDev(p)[k + 3].op = "write"

\* C14, second case: the status read 0 and the data register was still read
C14_WitnessZero ==
  \E p \in Procs :
    \E k \in 1..Len(RegDev(p)) :
      /\ IsRegOp(RegDev(p)[k], "rd", AXI_GPIO_IPISR_OFFSET)
      /\ RegDev(p)[k].bits = {}
      /\ k + 1 <= Len(RegDev(p))
      /\ IsRegOp(RegDev(p)[k + 1], "rd", AXI_GPIO_DATA_OFFSET)

(* ------------------------------- C15 ----------------------------------- *)

\* the wait-read at position i of p's log delivered the count c
Delivered(p, i, c) ==
  /\ LogOf(p)[i].op = "read"
  /\ LogOf(p)[i].res = WordBytes
  /\ LogOf(p)[i].arg = c

\* C15: after a wait-read that delivered the count 0 the next thing the
\* process does is the unmask write: no message, no register read or write
\* in between; and the interrupt message that opens the handling branch
\* only ever follows a wait-read that left a non-zero count in npending.
C15_HandlingOnlyWhenPending ==
  \A p \in Procs : \A i \in DOMAIN LogOf(p) :
    /\ (Delivered(p, i, 0) /\ i + 1 <= Len(LogOf(p))) =>
         LogOf(p)[i + 1].op = "write"
    /\ LogOf(p)[i].op = "print_irq" =>
         (LogOf(p)[i - 1].op = "read" /\ LogOf(p)[i - 1].arg # 0)

\* a wait-read delivered 0 and the loop went straight to the next unmask
C15_Witness ==
  \E p \in Procs : \E i \in DOMAIN LogOf(p) :
    /\ Delivered(p, i, 0)
    /\ i + 1 <= Len(LogOf(p))
    /\ LogOf(p)[i + 1].op = "write"

(* ------------------------------- C16 ----------------------------------- *)

\* p has entered the wait loop
InLoop(p) == Count(p, "write") > 0

\* the last device-file operation of p is an unmask write that fell short
EndsOnShortWrite(p) ==
  LET s == DevFile(p)
  IN /\ Len(s) > 0
     /\ s[Len(s)].op = "write"
     /\ s[Len(s)].res \in 0 .. (WordBytes - 1)

\* C16: every wait-read that is not the last device-file operation of its
\* process is followed by an unmask write; a process that entered the loop
\* ends only in the SIGINT handler or through exit(status) after a short
\* unmask write; uio_run never returns EXIT_SUCCESS; and a process ends with
\* status 0 only in the SIGINT handler or as the parent that forked and
\* reported the pid.
C16_LoopHasNoNormalExit ==
  \A p \in Procs :
    /\ \A k \in 1..Len(DevFile(p)) :
         (DevFile(p)[k].op = "read" /\ k < Len(DevFile(p))) =>
           DevFile(p)[k + 1].op = "write"
    /\ (Ended(p) /\ InLoop(p)) =>
         \/ proc[p].via = "signal"
         \/ proc[p].via = "exit_status" /\ EndsOnShortWrite(p)
    /\ proc[p].pc = "run_returned" => proc[p].ret = EXIT_FAILURE
    /\ proc[p].via = "exit_status" => proc[p].status = EXIT_FAILURE
    /\ (Ended(p) /\ proc[p].status = EXIT_SUCCESS) =>
         \/ proc[p].via = "signal"
         \/ proc[p].via = "main_return" /\ ForkedOk(p) /\ Count(p, "print_pid") = 1

\* the loop went round once (a wait-read, then an unmask write that fell
\* short) and the process ended through exit(status) with failure
C16_Witness ==
  \E p \in Procs :
    /\ Count(p, "read") >= 1
    /\ EndsOnShortWrite(p)
    /\ proc[p].via = "exit_status"
    /\ proc[p].status = EXIT_FAILURE

(* ------------------------------- C17 ----------------------------------- *)

\* C17 (as stated): whenever the test of npending has been made, the value
\* tested was stored by the wait-read of the same iteration: it is never
\* the uninitialised variable and never the count of an earlier iteration.
C17_TestedCountIsDelivered ==
  \A p \in Procs : proc[p].tested \in {"none", "delivered"}

(* ------------------------------- C18 ----------------------------------- *)

\* p has completed the six register accesses of the initialisation
InitDone(p) == Len(RegDev(p)) >= 6

\* C18: once a process has completed the initialisation, every register
\* write it makes afterwards is to IPISR, and the registers hold what the
\* initialisation wrote: GIER the enable value, TRI and IPIER the values
\* written with bit 0 set, until and after the process ends.
C18_LoopWritesOnlyStatus ==
  \A p \in Procs :
    InitDone(p) =>
      LET s == RegDev(p)
      IN /\ \A k \in 7..Len(s) :
              s[k].op = "wr" => s[k].reg = AXI_GPIO_IPISR_OFFSET
         /\ regs[AXI_GPIO_GIER_OFFSET] = AXI_GPIO_GIER_ENABLE
         /\ regs[AXI_GPIO_TRI_OFFSET] = s[3].bits
         /\ regs[AXI_GPIO_IPIER_OFFSET] = s[5].bits
         /\ 0 \in regs[AXI_GPIO_TRI_OFFSET]
         /\ 0 \in regs[AXI_GPIO_IPIER_OFFSET]

\* a process acknowledged an interrupt, then left through the error exit
C18_Witness ==
  \E p \in Procs :
    /\ InitDone(p)
    /\ \E k \in 7..Len(RegDev(p)) : IsRegOp(RegDev(p)[k], "wr", AXI_GPIO_IPISR_OFFSET)
    /\ EndsOnShortWrite(p)
    /\ proc[p].via = "exit_status"

(* ------------------------------- C19 ----------------------------------- *)

\* the value the last read of IPISR in p's log returned
LastStatusRead(p) ==
  LET ks == {k \in DOMAIN LogOf(p) : IsRegOp(LogOf(p)[k], "rd", AXI_GPIO_IPISR_OFFSET)}
  IN LogOf(p)[CHOOSE k \in ks : \A j \in ks : j <= k].bits

\* C19: in every step in which a process stores to IPISR, the value stored
\* is the value its last read of IPISR returned, the register afterwards
\* holds exactly the bits it held before minus the bits stored, and so
\* every bit the peripheral raised after that read is still set.
C19_AckClearsOnlyObserved ==
  [][\A p \in Procs :
       (proc[p].pc = "isr_write" /\ proc'[p].pc = "data_read") =>
         LET e == proc'[p].log[Len(proc'[p].log)]
         IN /\ IsRegOp(e, "wr", AXI_GPIO_IPISR_OFFSET)
            /\ e.bits = LastStatusRead(p)
            /\ regs'[AXI_GPIO_IPISR_OFFSET] =
                 regs[AXI_GPIO_IPISR_OFFSET] \ LastStatusRead(p)
            /\ (regs[AXI_GPIO_IPISR_OFFSET] \ LastStatusRead(p))
                 \subseteq regs'[AXI_GPIO_IPISR_OFFSET]]_vars

\* the peripheral raised a bit between the read and the write-back, the
\* write-back has been made and the bit is still set
C19_Witness ==
  \E p \in Procs :
    /\ proc[p].pc = "data_read"
    /\ proc[p].raced # {}
    /\ proc[p].raced \subseteq regs[AXI_GPIO_IPISR_OFFSET]
    /\ proc[p].raced \cap proc[p].isr = {}
    /\ IsRegOp(LogOf(p)[Len(LogOf(p))], "wr", AXI_GPIO_IPISR_OFFSET)

====
